---- MODULE Spec2Model ----
(***************************************************************************)
(* analyze<T>() of OpenSim/Simulation/SimulationUtilities.h as a state     *)
(* machine: one action per statement group of the function body, in the    *)
(* order the body executes them.  The Model, the SimTK::System and the     *)
(* TableReporter_ are external; they are represented by the part of their  *)
(* behaviour analyze() relies on (component list, outputs, control index   *)
(* map, component lookup, one captured row per realizeReport).             *)
(* The model is one the calls before the loop accept: initSystem,          *)
(* createFromStatesTable and createSystemControlIndexMap return normally.  *)
(* T is fixed to double.  Paths and regular expressions are sequences of   *)
(* symbols; "dot" is the regex '.', "star" is the regex '.*'.               *)
(***************************************************************************)
EXTENDS Integers, Sequences, FiniteSets, TLC

\* ---------------------------------------------------------------- bounds
MaxRows == 2
MaxPatterns == 2

\* ------------------------------------------------------------- the model
T == "double"

\* model.getComponentList(), each with comp.getOutputNames() in order
Components ==
    << [path |-> <<"j">>,
        outputs |-> << [name |-> "x", type |-> "double"],
                       [name |-> "y", type |-> "Vec3"] >>],
       [path |-> <<"j", "s">>,
        outputs |-> << [name |-> "x", type |-> "double"] >>],
       [path |-> <<"m">>,
        outputs |-> << [name |-> "x", type |-> "double"] >>] >>

\* the model's controls, in the order of Model::getControls()
ModelControls == <<"act0", "act1">>

Range(s) == {s[i] : i \in 1..Len(s)}

ComponentPaths == {Components[i].path : i \in 1..Len(Components)}

\* output.getPathName()
OutputPath(comp, out) == Append(comp.path, out.name)

AllOutputs ==
    UNION {{[path |-> OutputPath(Components[i], Components[i].outputs[k]),
             type |-> Components[i].outputs[k].type] :
                k \in 1..Len(Components[i].outputs)} :
           i \in 1..Len(Components)}

\* ------------------------------------------------------------ the inputs
PatternSet == { <<"x">>, <<"star", "x">>, <<"j", "dot">> }

OutputPathLists == UNION {[1..n -> PatternSet] : n \in 0..MaxPatterns}

\* column labels of a table are unique
ControlLabelLists ==
    { <<>>, <<"act0">>, <<"act1">>, <<"act0", "act1">>, <<"act1", "act0">>,
      <<"unk">>, <<"act0", "unk">> }

DiscreteLabelLists ==
    { <<>>, << <<"j", "d">> >>, << <<"j", "s", "d">> >>, << <<"q", "d">> >>,
      << <<"j", "d">>, <<"j", "s", "d">> >>,
      << <<"j", "s", "d">>, <<"j", "d">> >>,
      << <<"j", "d">>, <<"q", "d">> >> }

\* a table with n rows; every cell holds a distinct non-zero value
MkTable(labels, n, base) ==
    [labels |-> labels,
     rows |-> [i \in 1..n |-> [c \in 1..Len(labels) |-> base + 10 * i + c]]]

getNumRows(table) == Len(table.rows)
getNumColumns(table) == Len(table.labels)
getColumnLabels(table) == table.labels

\* ------------------------------------------------------- pure operations
\* full match of a sequence of symbols against a pattern
RECURSIVE Match(_, _)
Match(s, p) ==
    IF p = <<>> THEN s = <<>>
    ELSE IF Head(p) = "star"
         THEN Match(s, Tail(p)) \/ (s # <<>> /\ Match(Tail(s), p))
         ELSE /\ s # <<>>
              /\ (Head(p) = "dot" \/ Head(p) = Head(s))
              /\ Match(Tail(s), Tail(p))

\* std::regex_match(thisOutputPath, std::regex(outputPathArg)): the whole
\* path must match, a matching substring is not enough
RegexMatch(s, p) == Match(s, p)

TypeAgreesAlways(out) == TRUE

\* dynamic_cast<const Output<T>*>(&output)
TypeAgrees(out) == out.type = T

\* the pattern loop leaving after the first registration
RECURSIVE ScanPatternsBreak(_, _, _, _)
ScanPatternsBreak(comp, out, pats, k) ==
    IF k > Len(pats) THEN <<>>
    ELSE IF RegexMatch(OutputPath(comp, out), pats[k]) /\ TypeAgrees(out)
         THEN << OutputPath(comp, out) >>
         ELSE ScanPatternsBreak(comp, out, pats, k + 1)

\* the loop over outputPaths for one output: the addToReport calls it makes
RECURSIVE ScanPatterns(_, _, _, _)
ScanPatterns(comp, out, pats, k) ==
    IF k > Len(pats) THEN <<>>
    ELSE (IF RegexMatch(OutputPath(comp, out), pats[k]) /\ TypeAgrees(out)
          THEN << OutputPath(comp, out) >>
          ELSE <<>>)
         \o ScanPatterns(comp, out, pats, k + 1)

\* the loop over comp.getOutputNames() for one component
RECURSIVE ScanOutputs(_, _, _)
ScanOutputs(comp, pats, o) ==
    IF o > Len(comp.outputs) THEN <<>>
    ELSE ScanPatterns(comp, comp.outputs[o], pats, 1)
         \o ScanOutputs(comp, pats, o + 1)

\* createSystemControlIndexMap: control name -> index in getControls()
createSystemControlIndexMap ==
    [n \in Range(ModelControls) |->
        (CHOOSE i \in 1..Len(ModelControls) : ModelControls[i] = n) - 1]

\* ComponentPath(label).getComponentName() / getParentPathString()
getComponentName(label) == label[Len(label)]
getParentPathString(label) == SubSeq(label, 1, Len(label) - 1)

ComponentExistsAlways(path) == TRUE

\* model.getComponent(path) finds a component
ComponentExists(path) == path \in ComponentPaths

StatesControlsRowsDifferOneSided(m, k) == m > k

\* the condition of the first OPENSIM_THROW_IF
StatesControlsRowsDiffer(m, k) == m # k

DiscreteRowsDifferOneSided(n, m) == n < m

\* the condition of the second OPENSIM_THROW_IF
DiscreteRowsDiffer(n, m) == n # m

LoopContinuesShort(i, size) == i < size - 1

\* the for-loop condition
LoopContinues(i, size) == i < size

ControlsRowFirst(table, i) == table.rows[1]

\* controlsTable.getRowAtIndex(itime), itime counted from 0
ControlsRowAt(table, i) == table.rows[i + 1]

\* outcomes of an element write past the end of the controls vector:
\* a bounds-checked build traps, an unchecked build writes outside the
\* vector and leaves its elements as they were
UBOutcomes == {"trap", "silent"}

\* the loop over controlNames; vec is the reused controls vector
RECURSIVE FillControls(_, _, _, _, _, _)
FillControls(vec, names, map, row, k, ub) ==
    IF k > Len(names) THEN [fault |-> "none", vec |-> vec]
    ELSE IF names[k] \notin DOMAIN map
         THEN [fault |-> "ControlNotInMap", vec |-> vec]
         ELSE IF map[names[k]] >= Len(vec)
              THEN IF ub = "trap"
                   THEN [fault |-> "IndexOutOfRange", vec |-> vec]
                   ELSE FillControls(vec, names, map, row, k + 1, ub)
              ELSE FillControls([vec EXCEPT ![map[names[k]] + 1] = row[k]],
                                names, map, row, k + 1, ub)

\* component.setDiscreteVariableValue for every column, in column order
RECURSIVE ApplyDiscrete(_, _, _, _, _)
ApplyDiscrete(dv, refs, table, i, idv) ==
    IF idv > Len(refs) THEN dv
    ELSE ApplyDiscrete(
            {e \in dv : ~(e.component = refs[idv][2] /\ e.name = refs[idv][1])}
            \cup {[component |-> refs[idv][2], name |-> refs[idv][1],
                   value |-> table.rows[i + 1][idv]]},
            refs, table, i, idv + 1)

\* ------------------------------------------------- order of the statements
SetupOrderAttachFirst ==
    << "initSystem", "addComponent", "scan", "reinitSystem",
       "createStatesTrajectory", "createControlMap", "checkRowCounts",
       "resolveDiscrete" >>

\* statements of analyze() before the per-sample loop
SetupOrder ==
    << "initSystem", "scan", "addComponent", "reinitSystem",
       "createStatesTrajectory", "createControlMap", "checkRowCounts",
       "resolveDiscrete" >>

LoopOrderControlsFirst ==
    << "loadState", "prescribe", "fillControls", "setControls",
       "realizeVelocity", "setDiscrete", "realizeReport" >>

\* statements of the per-sample loop body
LoopOrder ==
    << "loadState", "prescribe", "fillControls", "realizeVelocity",
       "setControls", "setDiscrete", "realizeReport" >>

IndexOf(order, p) == CHOOSE i \in 1..Len(order) : order[i] = p

\* the statement that follows p in the setup; the loop follows the last one
AfterSetup(p, size) ==
    IF IndexOf(SetupOrder, p) < Len(SetupOrder)
    THEN SetupOrder[IndexOf(SetupOrder, p) + 1]
    ELSE IF LoopContinues(0, size) THEN LoopOrder[1] ELSE "return"

\* the statement that follows p in the loop body; after the last one,
\* ++itime and the loop condition
AfterLoopStep(p, i, size) ==
    IF IndexOf(LoopOrder, p) < Len(LoopOrder)
    THEN LoopOrder[IndexOf(LoopOrder, p) + 1]
    ELSE IF LoopContinues(i + 1, size) THEN LoopOrder[1] ELSE "return"

\* ----------------------------------------------------------------- state
VARIABLES
    statesTable, controlsTable, discreteVariablesTable, outputPaths,
    pc, ci, registered, setupLog, statesTraj, controlMap, controls,
    discreteComponentRefs, itime, state, sampleLog, sink, reportCalls,
    result, error

inputs == << statesTable, controlsTable, discreteVariablesTable, outputPaths >>

vars ==
    << statesTable, controlsTable, discreteVariablesTable, outputPaths,
       pc, ci, registered, setupLog, statesTraj, controlMap, controls,
       discreteComponentRefs, itime, state, sampleLog, sink, reportCalls,
       result, error >>

NoState == [sample |-> -1, y |-> <<>>, controls |-> <<>>, discrete |-> {}]

Init ==
    /\ \E m \in 0..MaxRows : statesTable = MkTable(<<"q">>, m, 100)
    /\ \E k \in 0..MaxRows : \E labels \in ControlLabelLists :
            controlsTable = MkTable(labels, k, 200)
    /\ \E n \in 0..MaxRows : \E labels \in DiscreteLabelLists :
            discreteVariablesTable = MkTable(labels, n, 300)
    /\ outputPaths \in OutputPathLists
    /\ pc = SetupOrder[1]
    /\ ci = 1
    /\ registered = <<>>
    /\ setupLog = <<>>
    /\ statesTraj = <<>>
    /\ controlMap = <<>>
    /\ controls = <<>>
    /\ discreteComponentRefs = <<>>
    /\ itime = 0
    /\ state = NoState
    /\ sampleLog = <<>>
    /\ sink = <<>>
    /\ reportCalls = 0
    /\ result = <<>>
    /\ error = "none"

\* ------------------------------------------------------------- the setup
\* model.initSystem(); reporter = new TableReporter_<T>()
InitSystem ==
    /\ pc = "initSystem"
    /\ setupLog' = Append(setupLog, "initSystem")
    /\ pc' = AfterSetup("initSystem", Len(statesTraj))
    /\ UNCHANGED << inputs, ci, registered, statesTraj, controlMap, controls,
                    discreteComponentRefs, itime, state, sampleLog, sink,
                    reportCalls, result, error >>

\* one iteration of the loop over model.getComponentList()
ScanComponent ==
    /\ pc = "scan"
    /\ ci <= Len(Components)
    /\ LET added == ScanOutputs(Components[ci], outputPaths, 1) IN
        /\ registered' = registered \o added
        /\ setupLog' = setupLog \o [k \in 1..Len(added) |-> "addToReport"]
    /\ ci' = ci + 1
    /\ pc' = IF ci + 1 <= Len(Components) THEN "scan"
             ELSE AfterSetup("scan", Len(statesTraj))
    /\ UNCHANGED << inputs, statesTraj, controlMap, controls,
                    discreteComponentRefs, itime, state, sampleLog, sink,
                    reportCalls, result, error >>

\* model.addComponent(reporter)
AddComponent ==
    /\ pc = "addComponent"
    /\ setupLog' = Append(setupLog, "addComponent")
    /\ pc' = AfterSetup("addComponent", Len(statesTraj))
    /\ UNCHANGED << inputs, ci, registered, statesTraj, controlMap, controls,
                    discreteComponentRefs, itime, state, sampleLog, sink,
                    reportCalls, result, error >>

\* the second model.initSystem()
ReinitSystem ==
    /\ pc = "reinitSystem"
    /\ setupLog' = Append(setupLog, "initSystem")
    /\ pc' = AfterSetup("reinitSystem", Len(statesTraj))
    /\ UNCHANGED << inputs, ci, registered, statesTraj, controlMap, controls,
                    discreteComponentRefs, itime, state, sampleLog, sink,
                    reportCalls, result, error >>

\* StatesTrajectory::createFromStatesTable(model, statesTable)
CreateStatesTrajectory ==
    /\ pc = "createStatesTrajectory"
    /\ statesTraj' = statesTable.rows
    /\ setupLog' = Append(setupLog, "createFromStatesTable")
    /\ pc' = AfterSetup("createStatesTrajectory", Len(statesTraj'))
    /\ UNCHANGED << inputs, ci, registered, controlMap, controls,
                    discreteComponentRefs, itime, state, sampleLog, sink,
                    reportCalls, result, error >>

\* controlNames, controlMap and the controls vector
CreateControlMap ==
    /\ pc = "createControlMap"
    /\ controlMap' = createSystemControlIndexMap
    /\ controls' = [s \in 1..getNumColumns(controlsTable) |-> 0]
    /\ setupLog' = Append(setupLog, "createSystemControlIndexMap")
    /\ pc' = AfterSetup("createControlMap", Len(statesTraj))
    /\ UNCHANGED << inputs, ci, registered, statesTraj,
                    discreteComponentRefs, itime, state, sampleLog, sink,
                    reportCalls, result, error >>

\* OPENSIM_THROW_IF(statesTable.getNumRows() != controlsTable.getNumRows())
CheckRowCounts ==
    /\ pc = "checkRowCounts"
    /\ IF StatesControlsRowsDiffer(getNumRows(statesTable),
                                   getNumRows(controlsTable))
       THEN /\ error' = "StatesControlsRowCount"
            /\ pc' = "done"
       ELSE /\ error' = error
            /\ pc' = AfterSetup("checkRowCounts", Len(statesTraj))
    /\ UNCHANGED << inputs, ci, registered, setupLog, statesTraj, controlMap,
                    controls, discreteComponentRefs, itime, state, sampleLog,
                    sink, reportCalls, result >>

\* if (discreteVariablesTable.getNumColumns()) { ... }
ResolveDiscrete ==
    /\ pc = "resolveDiscrete"
    /\ LET labels == getColumnLabels(discreteVariablesTable) IN
        IF getNumColumns(discreteVariablesTable) = 0
        THEN /\ pc' = AfterSetup("resolveDiscrete", Len(statesTraj))
             /\ UNCHANGED << discreteComponentRefs, error >>
        ELSE IF DiscreteRowsDiffer(getNumRows(discreteVariablesTable),
                                   getNumRows(statesTable))
        THEN /\ error' = "DiscreteRowCount"
             /\ pc' = "done"
             /\ UNCHANGED discreteComponentRefs
        ELSE IF \E i \in 1..Len(labels) :
                    ~ComponentExists(getParentPathString(labels[i]))
        THEN /\ error' = "ComponentNotFound"
             /\ pc' = "done"
             /\ UNCHANGED discreteComponentRefs
        ELSE /\ discreteComponentRefs' =
                    [i \in 1..Len(labels) |->
                        << getComponentName(labels[i]),
                           getParentPathString(labels[i]) >>]
             /\ pc' = AfterSetup("resolveDiscrete", Len(statesTraj))
             /\ UNCHANGED error
    /\ UNCHANGED << inputs, ci, registered, setupLog, statesTraj, controlMap,
                    controls, itime, state, sampleLog, sink, reportCalls,
                    result >>

\* -------------------------------------------------------- the sample loop
\* auto state = statesTraj[itime]
LoadState ==
    /\ pc = "loadState"
    /\ state' = [sample |-> itime, y |-> statesTraj[itime + 1],
                 controls |-> <<>>, discrete |-> {}]
    /\ sampleLog' = << "loadState" >>
    /\ pc' = AfterLoopStep("loadState", itime, Len(statesTraj))
    /\ UNCHANGED << inputs, ci, registered, setupLog, statesTraj, controlMap,
                    controls, discreteComponentRefs, itime, sink, reportCalls,
                    result, error >>

\* model.getSystem().prescribe(state)
Prescribe ==
    /\ pc = "prescribe"
    /\ sampleLog' = Append(sampleLog, "prescribe")
    /\ pc' = AfterLoopStep("prescribe", itime, Len(statesTraj))
    /\ UNCHANGED << inputs, ci, registered, setupLog, statesTraj, controlMap,
                    controls, discreteComponentRefs, itime, state, sink,
                    reportCalls, result, error >>

\* controls[controlMap.at(controlNames[icontrol])] = controlsRow[icontrol]
FillControlsVector ==
    /\ pc = "fillControls"
    /\ IF itime + 1 > getNumRows(controlsTable)
       THEN /\ error' = "RowIndexOutOfRange"
            /\ pc' = "done"
            /\ UNCHANGED controls
       ELSE \E ub \in UBOutcomes :
            LET r == FillControls(controls, getColumnLabels(controlsTable),
                                  controlMap,
                                  ControlsRowAt(controlsTable, itime), 1, ub)
            IN  /\ controls' = r.vec
                /\ error' = r.fault
                /\ pc' = IF r.fault = "none"
                         THEN AfterLoopStep("fillControls", itime,
                                            Len(statesTraj))
                         ELSE "done"
    /\ UNCHANGED << inputs, ci, registered, setupLog, statesTraj, controlMap,
                    discreteComponentRefs, itime, state, sampleLog, sink,
                    reportCalls, result >>

\* model.realizeVelocity(state)
RealizeVelocity ==
    /\ pc = "realizeVelocity"
    /\ sampleLog' = Append(sampleLog, "realizeVelocity")
    /\ pc' = AfterLoopStep("realizeVelocity", itime, Len(statesTraj))
    /\ UNCHANGED << inputs, ci, registered, setupLog, statesTraj, controlMap,
                    controls, discreteComponentRefs, itime, state, sink,
                    reportCalls, result, error >>

\* model.setControls(state, controls)
SetControls ==
    /\ pc = "setControls"
    /\ state' = [state EXCEPT !.controls = controls]
    /\ sampleLog' = Append(sampleLog, "setControls")
    /\ pc' = AfterLoopStep("setControls", itime, Len(statesTraj))
    /\ UNCHANGED << inputs, ci, registered, setupLog, statesTraj, controlMap,
                    controls, discreteComponentRefs, itime, sink, reportCalls,
                    result, error >>

\* if (discreteVariablesTable.getNumColumns()) { setDiscreteVariableValue }
SetDiscrete ==
    /\ pc = "setDiscrete"
    /\ IF getNumColumns(discreteVariablesTable) = 0
       THEN UNCHANGED << state, sampleLog >>
       ELSE /\ state' = [state EXCEPT !.discrete =
                            ApplyDiscrete(state.discrete,
                                          discreteComponentRefs,
                                          discreteVariablesTable, itime, 1)]
            /\ sampleLog' = Append(sampleLog, "setDiscrete")
    /\ pc' = AfterLoopStep("setDiscrete", itime, Len(statesTraj))
    /\ UNCHANGED << inputs, ci, registered, setupLog, statesTraj, controlMap,
                    controls, discreteComponentRefs, itime, sink, reportCalls,
                    result, error >>

\* model.realizeReport(state): the reporter captures one row; it is the last
\* statement of the body, so ++itime follows
RealizeReport ==
    /\ pc = "realizeReport"
    /\ sampleLog' = Append(sampleLog, "realizeReport")
    /\ reportCalls' = reportCalls + 1
    /\ sink' = Append(sink, [sample |-> state.sample, state |-> state,
                             log |-> sampleLog'])
    /\ itime' = itime + 1
    /\ pc' = AfterLoopStep("realizeReport", itime, Len(statesTraj))
    /\ UNCHANGED << inputs, ci, registered, setupLog, statesTraj, controlMap,
                    controls, discreteComponentRefs, state, result, error >>

\* return reporter->getTable(); result holds the returned table, if any
Return ==
    /\ pc = "return"
    /\ result' = << [columns |-> registered, rows |-> sink] >>
    /\ pc' = "done"
    /\ UNCHANGED << inputs, ci, registered, setupLog, statesTraj, controlMap,
                    controls, discreteComponentRefs, itime, state, sampleLog,
                    sink, reportCalls, error >>

Next ==
    \/ InitSystem
    \/ ScanComponent
    \/ AddComponent
    \/ ReinitSystem
    \/ CreateStatesTrajectory
    \/ CreateControlMap
    \/ CheckRowCounts
    \/ ResolveDiscrete
    \/ LoadState
    \/ Prescribe
    \/ FillControlsVector
    \/ RealizeVelocity
    \/ SetControls
    \/ SetDiscrete
    \/ RealizeReport
    \/ Return

Spec == Init /\ [][Next]_vars

TypeOK ==
    /\ pc \in Range(SetupOrder) \cup Range(LoopOrder) \cup {"return", "done"}
    /\ itime \in 0..(MaxRows + 1)
    /\ reportCalls \in 0..(MaxRows + 1)

\* ------------------------------------------------------------ properties
IsPrefix(s, t) == Len(s) <= Len(t) /\ SubSeq(t, 1, Len(s)) = s

InLoop == pc \in {"loadState", "prescribe", "fillControls", "realizeVelocity",
                  "setControls", "setDiscrete", "realizeReport", "return"}

NothingProcessed ==
    /\ ~InLoop
    /\ state = NoState
    /\ reportCalls = 0
    /\ sink = <<>>
    /\ result = <<>>

\* the control values row i of the controls table prescribes for a vector
\* with one element per column
ExpectedControls(i) ==
    [s \in 1..Len(controlsTable.labels) |->
        IF s <= Len(ModelControls)
           /\ \E c \in 1..Len(controlsTable.labels) :
                controlsTable.labels[c] = ModelControls[s]
        THEN controlsTable.rows[i + 1][
                CHOOSE c \in 1..Len(controlsTable.labels) :
                    controlsTable.labels[c] = ModelControls[s]]
        ELSE 0]

\* the discrete values row i of the discrete-variable table prescribes
ExpectedDiscrete(i) ==
    {[component |-> SubSeq(discreteVariablesTable.labels[c], 1,
                           Len(discreteVariablesTable.labels[c]) - 1),
      name |-> discreteVariablesTable.labels[c][
                    Len(discreteVariablesTable.labels[c])],
      value |-> discreteVariablesTable.rows[i + 1][c]] :
        c \in 1..Len(discreteVariablesTable.labels)}

SomeControlMissing ==
    \E s \in 1..Len(ModelControls) :
        ModelControls[s] \notin Range(controlsTable.labels)

\* C1: when a model control has no column in the controls table, the vector
\* given to setControls at every sample has one element per model control,
\* 0 for the control without a column and the row's value for the others.
C1_MissingControlIsZero ==
    (SomeControlMissing /\ state.controls # <<>>) =>
        /\ Len(state.controls) = Len(ModelControls)
        /\ \A s \in 1..Len(ModelControls) :
            state.controls[s] =
                IF \E c \in 1..Len(controlsTable.labels) :
                        controlsTable.labels[c] = ModelControls[s]
                THEN controlsTable.rows[state.sample + 1][
                        CHOOSE c \in 1..Len(controlsTable.labels) :
                            controlsTable.labels[c] = ModelControls[s]]
                ELSE 0

\* C2: when the states and controls tables differ in their number of rows,
\* analyze() ends with the row-count error before the sample loop: no sample
\* is processed, realizeReport is not called, the reporter holds no row and
\* no table is returned.
C2_RowMismatchAbortsBeforeLoop ==
    (Len(statesTable.rows) # Len(controlsTable.rows)) =>
        /\ NothingProcessed
        /\ (pc = "done" => error = "StatesControlsRowCount")

C2_Witness ==
    /\ pc = "done"
    /\ Len(statesTable.rows) > Len(controlsTable.rows)
    /\ Len(controlsTable.rows) > 0
    /\ error = "StatesControlsRowCount"
    /\ registered # <<>>

RowCountErrors == {"StatesControlsRowCount", "DiscreteRowCount"}

\* C3 (as stated): a discrete-variable table whose number of rows differs
\* from that of the states table makes analyze() fail with a row-count
\* error and return no table, whatever the number of its columns.
C3_AnyDiscreteRowMismatchFails ==
    (Len(discreteVariablesTable.rows) # Len(statesTable.rows)) =>
        /\ NothingProcessed
        /\ (pc = "done" => error \in RowCountErrors)

\* C3 (amended): a discrete-variable table with at least one column whose
\* number of rows differs from that of the states table makes analyze() fail
\* with a row-count error before any sample is processed, and no table is
\* returned.
C3_DiscreteRowMismatchFails ==
    (Len(discreteVariablesTable.labels) > 0
     /\ Len(discreteVariablesTable.rows) # Len(statesTable.rows)) =>
        /\ NothingProcessed
        /\ (pc = "done" => error \in RowCountErrors)

C3_Witness ==
    /\ pc = "done"
    /\ Len(discreteVariablesTable.labels) > 0
    /\ Len(discreteVariablesTable.rows) > Len(statesTable.rows)
    /\ Len(statesTable.rows) = Len(controlsTable.rows)
    /\ Len(statesTable.rows) > 0
    /\ error = "DiscreteRowCount"

\* C4: a run that ends without error returns a table with one row per row of
\* the states table, row k captured from sample k, with the registered
\* outputs as columns in registration order; realizeReport is called once
\* per sample and only inside the loop.
C4_OneRowPerSample ==
    /\ reportCalls = Len(sink)
    /\ reportCalls = itime
    /\ (reportCalls > 0 => InLoop \/ pc = "done")
    /\ \A k \in 1..Len(sink) :
        /\ sink[k].sample = k - 1
        /\ sink[k].state.y = statesTable.rows[k]
    /\ (pc = "done" /\ error = "none") =>
        /\ result # <<>>
        /\ Len(result[1].rows) = Len(statesTable.rows)
        /\ reportCalls = Len(statesTable.rows)
        /\ result[1].rows = sink
        /\ result[1].columns = registered

C4_Witness ==
    /\ pc = "done"
    /\ error = "none"
    /\ Len(statesTable.rows) >= 2
    /\ Len(result[1].rows) >= 2
    /\ Len(result[1].columns) >= 2

\* an output of another type than T whose path some pattern matches
MismatchedOutputMatched ==
    \E o \in AllOutputs : \E k \in 1..Len(outputPaths) :
        o.type # "double" /\ Match(o.path, outputPaths[k])

ScanFinished == Len(setupLog) > 0 /\ pc # "scan"

\* C5: every registered output has type T and a path that some pattern
\* matches as a whole; an output of another type is never registered, and
\* meeting one neither raises an error during the scan nor changes the
\* number of rows of a run that ends without error.
C5_TypeMismatchSkipped ==
    /\ \A k \in 1..Len(registered) :
        \E o \in AllOutputs :
            /\ o.path = registered[k]
            /\ o.type = "double"
            /\ \E p \in Range(outputPaths) : Match(o.path, p)
    /\ \A o \in AllOutputs : o.type # "double" => o.path \notin Range(registered)
    /\ (pc \in {"scan", "addComponent", "reinitSystem"} => error = "none")
    /\ (MismatchedOutputMatched /\ pc = "done" /\ error = "none") =>
        /\ result # <<>>
        /\ Len(result[1].rows) = Len(statesTable.rows)

C5_Witness ==
    /\ MismatchedOutputMatched
    /\ pc = "done"
    /\ error = "none"
    /\ Len(result[1].rows) >= 1
    /\ <<"j", "y">> \notin Range(result[1].columns)
    /\ <<"j", "x">> \in Range(result[1].columns)

CanonicalSample ==
    IF Len(discreteVariablesTable.labels) > 0
    THEN << "loadState", "prescribe", "realizeVelocity", "setControls",
            "setDiscrete", "realizeReport" >>
    ELSE << "loadState", "prescribe", "realizeVelocity", "setControls",
            "realizeReport" >>

\* C6: on every sample the operations on its state happen in the order
\* load, prescribe, realize velocity, set controls, set discrete variables
\* (when a discrete table was given), realize report; every captured row
\* went through all of them.
C6_SampleOrder ==
    /\ IsPrefix(sampleLog, CanonicalSample)
    /\ \A k \in 1..Len(sink) : sink[k].log = CanonicalSample

C6_Witness ==
    /\ Len(sink) >= 2
    /\ Len(discreteVariablesTable.labels) > 0
    /\ sampleLog = CanonicalSample

SomeLabelUnresolved ==
    \E c \in 1..Len(discreteVariablesTable.labels) :
        SubSeq(discreteVariablesTable.labels[c], 1,
               Len(discreteVariablesTable.labels[c]) - 1)
            \notin {<<"j">>, <<"j", "s">>, <<"m">>}

\* C7: a discrete-variable table with a column whose component path is not
\* a component of the model makes analyze() fail before the first sample,
\* whatever the row counts (zero rows included): the reporter holds no row
\* and no table is returned.
C7_UnresolvedComponentFails ==
    SomeLabelUnresolved =>
        /\ NothingProcessed
        /\ (pc = "done" => error # "none")

C7_Witness ==
    /\ pc = "done"
    /\ SomeLabelUnresolved
    /\ error = "ComponentNotFound"
    /\ Len(statesTable.rows) = 0
    /\ Len(controlsTable.rows) = 0
    /\ Len(discreteVariablesTable.rows) = 0

NumAdded == Cardinality({k \in 1..Len(setupLog) : setupLog[k] = "addToReport"})

CanonicalSetup ==
    << "initSystem" >> \o [k \in 1..NumAdded |-> "addToReport"]
    \o << "addComponent", "initSystem", "createFromStatesTable",
          "createSystemControlIndexMap" >>

\* C9: every addToReport comes after the first initSystem and before the
\* reporter is added to the model; the reporter is added once, after the
\* scan; the system is initialized once more after that, and the states
\* trajectory and the control index map are built after it.
C9_SetupOrder ==
    /\ IsPrefix(setupLog, CanonicalSetup)
    /\ Len(setupLog) = Len(registered) + Len(SelectSeq(setupLog,
                                LAMBDA e : e # "addToReport"))
    /\ (pc = "scan" => "addComponent" \notin Range(setupLog))
    /\ (InLoop \/ pc = "done") => setupLog = CanonicalSetup

C9_Witness ==
    /\ pc = "done"
    /\ error = "none"
    /\ NumAdded >= 2
    /\ setupLog = CanonicalSetup

Occurrences(seq, x) == Cardinality({k \in 1..Len(seq) : seq[k] = x})

\* position of an output in component-traversal order, then output order
OutputRank(path) ==
    CHOOSE r \in 1..4 :
        path = << <<"j", "x">>, <<"j", "y">>, <<"j", "s", "x">>,
                  <<"m", "x">> >>[r]

\* C10: once the scan is finished an output of type T is registered as many
\* times as outputPaths has entries that match its whole path (no early
\* exit, no removal of duplicates), an output that no entry matches is not
\* registered, and the registrations follow component order, then output
\* order.
C10_RegistrationCount ==
    ScanFinished =>
        /\ \A o \in AllOutputs :
            Occurrences(registered, o.path) =
                IF o.type = "double"
                THEN Cardinality({k \in 1..Len(outputPaths) :
                                    Match(o.path, outputPaths[k])})
                ELSE 0
        /\ \A a, b \in 1..Len(registered) :
            a < b => OutputRank(registered[a]) <= OutputRank(registered[b])

C10_Witness ==
    /\ ScanFinished
    /\ Occurrences(registered, <<"j", "x">>) = 2
    /\ Occurrences(registered, <<"m", "x">>) = 1
    /\ outputPaths[1] # outputPaths[2]
====
